---- MODULE Spec2Model ----
(***************************************************************************)
(* CourseSync (src/main.py): timetable text -> calendar events.            *)
(*                                                                         *)
(* Strings are sequences of one-character tokens.  ASCII characters stand  *)
(* for themselves; the Chinese characters of the source are written as:    *)
(*   "zhou" = U+5468 (week)   "di" = U+7B2C   "jie" = U+8282 (period)      *)
(*   "yi".."shi" = the numerals 1..10         "jin","hai" = campus marker  *)
(* Fixed literal fragments of an f-string are written as one token.        *)
(***************************************************************************)
EXTENDS Integers, Sequences, FiniteSets, TLC

VARIABLES
    pc,                 \* position of the running function / of main
    stack,              \* <<>> when the function was called directly,
                        \* <<"main">> when main called it
    exc,                \* "none", or the exception that left the function
    week_str,           \* argument of parse_weeks
    cn_num,             \* argument of _convert_cn_num
    location,           \* argument of parse_classroom_location
    course,             \* argument of format_course_summary
    result,             \* <<>> before the call, <<value>> after the return
    \* parse_course_info
    course_blocks,      \* the blocks of the segmenter, each with its matches
    bi,                 \* index of the block being processed
    mi,                 \* number of matches of that block already processed
    time_slots,         \* local of parse_course_info
    start_time,         \* local of parse_course_info
    end_time,           \* local of parse_course_info
    time_locations,     \* course["time_locations"] of the block's course
    courses,            \* result of parse_course_info, input of generate_events
    \* generate_events
    semester_start_date, \* argument: a date, as its proleptic ordinal
    first_monday,       \* local: the Monday of the first week
    daily_slots,        \* local: (week, weekday offset) -> set of block labels
    added_events,       \* local: the identity keys already emitted
    events,             \* calendar.events, in the order of emission
    gi,                 \* number of iterations of the second pass done
    \* main
    file_exists,        \* environment: kebiao.txt can be opened for reading
    writable,           \* environment: the files that can be opened for writing
    semester_start,     \* the line read from the console
    written,            \* the output files written so far
    report,             \* what the run has reported at its end
    \* the segmenter loop of parse_course_info
    text,               \* argument of parse_course_info
    lines,              \* local: text.strip().split('\n') (line 213)
    li,                 \* local i of the loop, counted from 1
    current_block,      \* local: the lines of the block that is open
    course_started      \* local: a block start has been seen

pureVars == <<week_str, cn_num, location, course, result>>

parseVars == <<course_blocks, bi, mi, time_slots, start_time, end_time,
               time_locations>>

genVars == <<semester_start_date, first_monday, daily_slots, added_events,
             events, gi>>

mainVars == <<file_exists, writable, semester_start, written>>

segVars == <<text, lines, li, current_block, course_started>>

vars == <<pc, stack, exc, report, pureVars, parseVars, courses, genVars,
          mainVars, segVars>>

(***************************************************************************)
(* Bounds                                                                  *)
(***************************************************************************)
MaxWeekStrLen == 5
MaxNumLen == 2
MaxLocLen == 5
MaxMarkerPos == 1
MaxWeek == 3
MaxRanges == 3
MaxBlocks == 2
MaxGenTL == 2
MaxMatches == 2
MaxLines == 4

(***************************************************************************)
(* Generic helpers                                                         *)
(***************************************************************************)
SeqsUpTo(S, n) == UNION {[1..k -> S] : k \in 0..n}

NonEmptySeqsUpTo(S, n) == UNION {[1..k -> S] : k \in 1..n}

Digits == {"0", "1", "2", "3", "4", "5", "6", "7", "8", "9"}

Whitespace == {" "}

DigitVal ==
    "0" :> 0 @@ "1" :> 1 @@ "2" :> 2 @@ "3" :> 3 @@ "4" :> 4 @@
    "5" :> 5 @@ "6" :> 6 @@ "7" :> 7 @@ "8" :> 8 @@ "9" :> 9

\* int(s) for a non-empty string of decimal digits
RECURSIVE PyInt(_)
PyInt(s) ==
    IF Len(s) = 0 THEN 0
    ELSE 10 * PyInt(SubSeq(s, 1, Len(s) - 1)) + DigitVal[s[Len(s)]]

\* index of the last character of the maximal run of characters of Class
\* that starts at position i (i - 1 when s[i] is not in Class)
RECURSIVE RunEnd(_, _, _)
RunEnd(s, i, Class) ==
    IF i <= Len(s) /\ s[i] \in Class THEN RunEnd(s, i + 1, Class) ELSE i - 1

CharAt(s, i) == IF i >= 1 /\ i <= Len(s) THEN s[i] ELSE "EOS"

(***************************************************************************)
(* _convert_cn_num                                                         *)
(***************************************************************************)
cn_num_map ==
    <<"yi">> :> 1 @@ <<"er">> :> 2 @@ <<"san">> :> 3 @@ <<"si">> :> 4 @@
    <<"wu">> :> 5 @@ <<"liu">> :> 6 @@ <<"qi">> :> 7 @@ <<"ba">> :> 8 @@
    <<"jiu">> :> 9 @@ <<"shi">> :> 10 @@
    <<"shi", "yi">> :> 11 @@ <<"shi", "er">> :> 12

CnDigits == {"yi", "er", "san", "si", "wu", "liu", "qi", "ba", "jiu", "shi"}

_convert_cn_num_NoTens(n) ==
    IF n \in DOMAIN cn_num_map THEN cn_num_map[n] ELSE 1

_convert_cn_num(n) ==
    IF n \in DOMAIN cn_num_map THEN cn_num_map[n]
    ELSE IF \E i \in 1..Len(n) : n[i] = "shi"
         THEN IF Len(n) > 1
              THEN LET second_char == n[2]
                   IN  IF <<second_char>> \in DOMAIN cn_num_map
                       THEN 10 + cn_num_map[<<second_char>>]
                       ELSE 10
              ELSE 10
         ELSE 1

(***************************************************************************)
(* parse_weeks                                                             *)
(***************************************************************************)
\* (\d+)~(\d+)zhou anchored at i: 0 when there is no match, else the index
\* of the last matched character
RangeMatchEnd(s, i) ==
    LET e1 == RunEnd(s, i, Digits)
        e2 == RunEnd(s, e1 + 2, Digits)
    IN  IF /\ e1 >= i
           /\ CharAt(s, e1 + 1) = "~"
           /\ e2 >= e1 + 2
           /\ CharAt(s, e2 + 1) = "zhou"
        THEN e2 + 1
        ELSE 0

RangeMatchPair(s, i) ==
    LET e1 == RunEnd(s, i, Digits)
        e2 == RunEnd(s, e1 + 2, Digits)
    IN  <<PyInt(SubSeq(s, i, e1)), PyInt(SubSeq(s, e1 + 2, e2))>>

\* (\d+)zhou(?!\s*~) anchored at i
SingleMatchEnd(s, i) ==
    LET e1 == RunEnd(s, i, Digits)
        k  == RunEnd(s, e1 + 2, Whitespace)
    IN  IF /\ e1 >= i
           /\ CharAt(s, e1 + 1) = "zhou"
           /\ CharAt(s, k + 1) # "~"
        THEN e1 + 1
        ELSE 0

SingleMatchPair(s, i) ==
    LET n == PyInt(SubSeq(s, i, RunEnd(s, i, Digits)))
    IN  <<n, n>>

\* re.finditer: leftmost non-overlapping matches, scanning from i
RECURSIVE FindRanges(_, _)
FindRanges(s, i) ==
    IF i > Len(s) THEN <<>>
    ELSE IF RangeMatchEnd(s, i) # 0
         THEN <<RangeMatchPair(s, i)>> \o FindRanges(s, RangeMatchEnd(s, i) + 1)
         ELSE FindRanges(s, i + 1)

RECURSIVE FindSingles(_, _)
FindSingles(s, i) ==
    IF i > Len(s) THEN <<>>
    ELSE IF SingleMatchEnd(s, i) # 0
         THEN <<SingleMatchPair(s, i)>> \o FindSingles(s, SingleMatchEnd(s, i) + 1)
         ELSE FindSingles(s, i + 1)

parse_weeks(s) == FindRanges(s, 1) \o FindSingles(s, 1)

(***************************************************************************)
(* Static tables                                                           *)
(***************************************************************************)
\* the clock string "ab:cd"
HM(a, b, c, d) == <<a, b, ":", c, d>>

class_time_map ==
    1  :> [start |-> HM("0","8","0","0"), end |-> HM("0","8","4","5")] @@
    2  :> [start |-> HM("0","8","5","5"), end |-> HM("0","9","3","0")] @@
    3  :> [start |-> HM("0","9","4","0"), end |-> HM("1","0","2","5")] @@
    4  :> [start |-> HM("1","0","3","5"), end |-> HM("1","1","1","0")] @@
    5  :> [start |-> HM("1","2","4","0"), end |-> HM("1","3","2","5")] @@
    6  :> [start |-> HM("1","3","3","5"), end |-> HM("1","4","1","0")] @@
    7  :> [start |-> HM("1","4","2","0"), end |-> HM("1","5","0","5")] @@
    8  :> [start |-> HM("1","5","1","5"), end |-> HM("1","5","5","0")] @@
    9  :> [start |-> HM("1","7","0","0"), end |-> HM("1","7","4","5")] @@
    10 :> [start |-> HM("1","7","5","5"), end |-> HM("1","8","4","0")] @@
    11 :> [start |-> HM("1","8","5","0"), end |-> HM("1","9","3","5")] @@
    12 :> [start |-> HM("1","9","4","5"), end |-> HM("2","0","1","0")]

\* the key "f-l" is the pair <<f, l>>
merged_time_map ==
    <<1, 2>>  :> [start |-> HM("0","8","0","0"), end |-> HM("0","9","3","0")] @@
    <<3, 4>>  :> [start |-> HM("0","9","4","0"), end |-> HM("1","1","1","0")] @@
    <<5, 6>>  :> [start |-> HM("1","2","4","0"), end |-> HM("1","4","1","0")] @@
    <<7, 8>>  :> [start |-> HM("1","4","2","0"), end |-> HM("1","5","5","0")] @@
    <<9, 12>> :> [start |-> HM("1","7","0","0"), end |-> HM("2","0","1","0")]

\* "Mon".."Sun" stand for the seven weekday labels
weekday_map ==
    "Mon" :> 0 @@ "Tue" :> 1 @@ "Wed" :> 2 @@ "Thu" :> 3 @@
    "Fri" :> 4 @@ "Sat" :> 5 @@ "Sun" :> 6

(***************************************************************************)
(* parse_time_slots                                                        *)
(***************************************************************************)
\* di([numerals]+)jie~(?:di)?([numerals]+)jie anchored at i: 0 when there is
\* no match, else the index of the last matched character
SlotMatchSecond(s, i) ==
    LET e1 == RunEnd(s, i + 1, CnDigits)
    IN  IF CharAt(s, e1 + 3) = "di" THEN e1 + 4 ELSE e1 + 3

SlotMatchEnd(s, i) ==
    LET e1 == RunEnd(s, i + 1, CnDigits)
        j  == SlotMatchSecond(s, i)
        e2 == RunEnd(s, j, CnDigits)
    IN  IF /\ CharAt(s, i) = "di"
           /\ e1 >= i + 1
           /\ CharAt(s, e1 + 1) = "jie"
           /\ CharAt(s, e1 + 2) = "~"
           /\ e2 >= j
           /\ CharAt(s, e2 + 1) = "jie"
        THEN e2 + 1
        ELSE 0

SlotMatchPair(s, i) ==
    LET e1 == RunEnd(s, i + 1, CnDigits)
        j  == SlotMatchSecond(s, i)
        e2 == RunEnd(s, j, CnDigits)
    IN  <<_convert_cn_num(SubSeq(s, i + 1, e1)), _convert_cn_num(SubSeq(s, j, e2))>>

RECURSIVE FindSlots(_, _)
FindSlots(s, i) ==
    IF i > Len(s) THEN <<>>
    ELSE IF SlotMatchEnd(s, i) # 0
         THEN <<SlotMatchPair(s, i)>> \o FindSlots(s, SlotMatchEnd(s, i) + 1)
         ELSE FindSlots(s, i + 1)

parse_time_slots(time_str) == FindSlots(time_str, 1)

(***************************************************************************)
(* parse_course_info: the loop over the blocks and over the matches of     *)
(* time_loc_pattern in a block.  A match is the record of its five groups. *)
(***************************************************************************)
\* a local variable that has not been assigned yet
Unbound == <<"unbound">>

\* the values of the local time_slots: unbound, None, or a list of pairs
SlotsUnbound == [kind |-> "unbound", items |-> <<>>]

SlotsNone == [kind |-> "None", items |-> <<>>]

SlotsList(l) == [kind |-> "list", items |-> l]

\* s.split("~") of a string with exactly one "~"
SplitTilde(s) ==
    LET k == CHOOSE i \in 1..Len(s) : s[i] = "~"
    IN  <<SubSeq(s, 1, k - 1), SubSeq(s, k + 1, Len(s))>>

\* lines 256-272 for one match: the new values of the three locals, or the
\* exception raised
ResolveTime(time_str, old_start, old_end) ==
    IF \E i \in 1..Len(time_str) : time_str[i] = "di"
    THEN LET slots == parse_time_slots(time_str)
         IN  IF slots # <<>>
             THEN LET first_slot == slots[1][1]
                      last_slot  == slots[Len(slots)][2]
                  IN  IF <<first_slot, last_slot>> \in DOMAIN merged_time_map
                      THEN [exc |-> "none", time_slots |-> SlotsList(slots),
                            start_time |-> merged_time_map[<<first_slot, last_slot>>].start,
                            end_time |-> merged_time_map[<<first_slot, last_slot>>].end]
                      ELSE IF first_slot \in DOMAIN class_time_map
                              /\ last_slot \in DOMAIN class_time_map
                           THEN [exc |-> "none", time_slots |-> SlotsList(slots),
                                 start_time |-> class_time_map[first_slot].start,
                                 end_time |-> class_time_map[last_slot].end]
                           ELSE [exc |-> "KeyError", time_slots |-> SlotsList(slots),
                                 start_time |-> old_start, end_time |-> old_end]
             ELSE [exc |-> "none", time_slots |-> SlotsList(slots),
                   start_time |-> old_start, end_time |-> old_end]
    ELSE [exc |-> "none", time_slots |-> SlotsNone,
          start_time |-> SplitTilde(time_str)[1],
          end_time |-> SplitTilde(time_str)[2]]

(***************************************************************************)
(* parse_classroom_location                                                *)
(* Literal tokens: "Campus" = the campus name, "JiaoXueLou" = teaching     *)
(* building, "HaoLou" = "-numbered building", "Lou" = floor, "JiaoShi" =   *)
(* classroom; "ShengXiang", "KeXue", "ZongHe" = the three named buildings. *)
(***************************************************************************)
\* str.replace("jin hai", ""): leftmost non-overlapping occurrences, one pass
RECURSIVE RemoveMarker(_)
RemoveMarker(s) ==
    IF Len(s) = 0 THEN <<>>
    ELSE IF Len(s) >= 2 /\ s[1] = "jin" /\ s[2] = "hai"
         THEN RemoveMarker(SubSeq(s, 3, Len(s)))
         ELSE <<s[1]>> \o RemoveMarker(SubSeq(s, 2, Len(s)))

RECURSIVE LStrip(_)
LStrip(s) ==
    IF Len(s) > 0 /\ s[1] \in Whitespace THEN LStrip(Tail(s)) ELSE s

RECURSIVE RStrip(_)
RStrip(s) ==
    IF Len(s) > 0 /\ s[Len(s)] \in Whitespace
    THEN RStrip(SubSeq(s, 1, Len(s) - 1))
    ELSE s

Strip(s) == RStrip(LStrip(s))

building_names ==
    <<"9">> :> "ShengXiang" @@ <<"8">> :> "KeXue" @@ <<"1", "2">> :> "ZongHe"

GenericAddress(loc) == <<"Campus", " ">> \o loc

BuildingAddress(building, floor, room) ==
    IF building \in {<<"1">>, <<"2">>, <<"3">>, <<"4">>, <<"5">>, <<"6">>}
    THEN <<"Campus", "JiaoXueLou">> \o building
             \o <<"HaoLou", " ", floor, "Lou">> \o room \o <<"JiaoShi">>
    ELSE IF building \in DOMAIN building_names
    THEN <<"Campus", building_names[building], " ", floor, "Lou">>
             \o room \o <<"JiaoShi">>
    ELSE <<"Campus">> \o building
             \o <<"HaoLou", " ", floor, "Lou">> \o room \o <<"JiaoShi">>

SplitRoom_OneCharBuilding(loc) ==
    [building |-> SubSeq(loc, 1, 1), floor |-> loc[2],
     room |-> SubSeq(loc, 3, Len(loc))]

\* the slices of the try block; none of them can raise on a str of length
\* 4 or 5, so the except branch is never taken
SplitRoom(loc) ==
    IF Len(loc) = 4
    THEN [building |-> SubSeq(loc, 1, 1), floor |-> loc[2],
          room |-> SubSeq(loc, 3, Len(loc))]
    ELSE [building |-> SubSeq(loc, 1, 2), floor |-> loc[3],
          room |-> SubSeq(loc, 4, Len(loc))]

parse_classroom_location(l) ==
    LET loc == Strip(RemoveMarker(l))
    IN  IF Len(loc) \notin {4, 5}
        THEN GenericAddress(loc)
        ELSE LET p == SplitRoom(loc)
             IN  BuildingAddress(p.building, p.floor, p.room)

(***************************************************************************)
(* format_course_summary, calculate_total_weeks                            *)
(***************************************************************************)
\* for start_week, end_week in tl["weeks"]: all_weeks.update(range(...))
RECURSIVE AddRanges(_, _)
AddRanges(all_weeks, weeks) ==
    IF weeks = <<>> THEN all_weeks
    ELSE AddRanges(all_weeks \cup (weeks[1][1] .. weeks[1][2]), Tail(weeks))

\* for tl in time_locations: ...
RECURSIVE AddTimeLocations(_, _)
AddTimeLocations(all_weeks, tls) ==
    IF tls = <<>> THEN all_weeks
    ELSE AddTimeLocations(AddRanges(all_weeks, tls[1].weeks), Tail(tls))

calculate_total_weeks(tls) ==
    IF tls = <<>> THEN 0
    ELSE Cardinality(AddTimeLocations({}, tls))

RECURSIVE SumRangeLengths(_)
SumRangeLengths(weeks) ==
    IF weeks = <<>> THEN 0
    ELSE Cardinality(weeks[1][1] .. weeks[1][2]) + SumRangeLengths(Tail(weeks))

RECURSIVE SumTimeLocations(_)
SumTimeLocations(tls) ==
    IF tls = <<>> THEN 0
    ELSE SumRangeLengths(tls[1].weeks) + SumTimeLocations(Tail(tls))

format_course_summary_NoSet(c) ==
    [name        |-> c.name,
     teachers    |-> {c.time_locations[i].teacher : i \in DOMAIN c.time_locations},
     total_weeks |-> SumTimeLocations(c.time_locations)]

\* the time_locations strings of the summary are not modelled
format_course_summary(c) ==
    [name        |-> c.name,
     teachers    |-> {c.time_locations[i].teacher : i \in DOMAIN c.time_locations},
     total_weeks |-> Cardinality(AddTimeLocations({}, c.time_locations))]

(***************************************************************************)
(* Calls, returns and exceptions                                           *)
(***************************************************************************)
PureIdle ==
    /\ week_str = <<>>
    /\ cn_num = <<>>
    /\ location = <<>>
    /\ course = <<>>
    /\ result = <<>>

ParseIdle ==
    /\ course_blocks = <<>>
    /\ bi = 0
    /\ mi = 0
    /\ time_slots = SlotsUnbound
    /\ start_time = Unbound
    /\ end_time = Unbound
    /\ time_locations = <<>>

GenIdle ==
    /\ semester_start_date = 0
    /\ first_monday = 0
    /\ daily_slots = <<>>
    /\ added_events = {}
    /\ events = <<>>
    /\ gi = 0

MainIdle ==
    /\ file_exists = TRUE
    /\ writable = {}
    /\ semester_start = <<>>
    /\ written = {}
    /\ report = "none"

SegIdle ==
    /\ text = <<>>
    /\ lines = <<>>
    /\ li = 0
    /\ current_block = <<>>
    /\ course_started = FALSE

NotInPipeline ==
    /\ SegIdle
    /\ stack = <<>>
    /\ exc = "none"
    /\ courses = <<>>
    /\ ParseIdle
    /\ GenIdle
    /\ MainIdle

\* the except clauses of main: the inner try (lines 598-627) catches
\* ValueError, the outer one FileNotFoundError and then Exception
Handler(e, inner) ==
    IF inner /\ e = "ValueError" THEN "date_format"
    ELSE IF e = "FileNotFoundError" THEN "file_not_found"
    ELSE "error"

\* exception e leaves the running function; inner: the call is made from
\* inside the inner try of main
Raise(e, inner) ==
    /\ exc' = e
    /\ IF stack = <<>>
       THEN pc' = "raised" /\ UNCHANGED <<stack, report>>
       ELSE pc' = "end" /\ stack' = <<>> /\ report' = Handler(e, inner)

(***************************************************************************)
(* parse_course_info: actions                                              *)
(***************************************************************************)
RemoveSpaces(s) == SelectSeq(s, LAMBDA c : c # " ")

\* lines 246-283 for one match: the exception raised, or the new locals and
\* the time_location built
ProcessMatch(m, old_start, old_end) ==
    LET r == ResolveTime(m.time_str, old_start, old_end)
    IN  IF r.exc = "none" /\ (r.start_time = Unbound \/ r.end_time = Unbound)
        THEN [r EXCEPT !.exc = "UnboundLocalError"]
        ELSE r

TimeLocationOf(m, r) ==
    [weeks      |-> parse_weeks(m.weeks_str),
     weekday    |-> m.weekday,
     time_slots |-> r.time_slots,
     start_time |-> r.start_time,
     end_time   |-> r.end_time,
     location   |-> RemoveSpaces(m.location),
     teacher    |-> m.teacher]

\* one iteration of "for match in re.finditer(time_loc_pattern, block)"
ParseMatch ==
    /\ pc = "parse"
    /\ bi <= Len(course_blocks)
    /\ mi < Len(course_blocks[bi].matches)
    /\ LET m == course_blocks[bi].matches[mi + 1]
           r == ProcessMatch(m, start_time, end_time)
       IN  IF r.exc # "none"
           THEN /\ Raise(r.exc, FALSE)
                /\ UNCHANGED <<mi, time_slots, start_time, end_time,
                               time_locations>>
           ELSE /\ mi' = mi + 1
                /\ time_slots' = r.time_slots
                /\ start_time' = r.start_time
                /\ end_time' = r.end_time
                /\ time_locations' = Append(time_locations, TimeLocationOf(m, r))
                /\ UNCHANGED <<pc, stack, exc, report>>
    /\ UNCHANGED <<course_blocks, bi, courses, pureVars, genVars, mainVars, segVars>>

\* lines 287-289, and the step to the next block with its new course object
ParseEndBlock ==
    /\ pc = "parse"
    /\ bi <= Len(course_blocks)
    /\ mi = Len(course_blocks[bi].matches)
    /\ courses' = IF time_locations # <<>>
                  THEN Append(courses, [name |-> course_blocks[bi].name,
                                        time_locations |-> time_locations])
                  ELSE courses
    /\ bi' = bi + 1
    /\ mi' = 0
    /\ time_locations' = <<>>
    /\ UNCHANGED <<pc, stack, exc, report, course_blocks, time_slots,
                   start_time, end_time, pureVars, genVars, mainVars, segVars>>

\* line 291
ParseReturn ==
    /\ pc = "parse"
    /\ bi > Len(course_blocks)
    /\ pc' = IF stack = <<>> THEN "returned" ELSE "input"
    /\ UNCHANGED <<stack, exc, report, parseVars, courses, pureVars, genVars,
                   mainVars, segVars>>

\* the period token "di first jie ~ [di] last jie"
PeriodStr(first, with_di, last) ==
    <<"di">> \o first \o <<"jie", "~">>
        \o (IF with_di THEN <<"di">> ELSE <<>>) \o last \o <<"jie">>

TimeStrs ==
    { PeriodStr(<<"yi">>, TRUE, <<"er">>),
      PeriodStr(<<"san">>, FALSE, <<"si">>),
      PeriodStr(<<"er">>, TRUE, <<"san">>),
      PeriodStr(<<"shi", "san">>, TRUE, <<"shi", "si">>),
      PeriodStr(<<"1">>, TRUE, <<"2">>),
      <<"1", "7", ":", "4", "0", "~", "1", "9", ":", "5", "5">>,
      <<"2", "5", ":", "0", "0", "~", "2", "6", ":", "0", "0">> }

ParseMatches ==
    {[weeks_str |-> <<"1", "~", "2", "zhou">>, weekday |-> "Mon",
      time_str |-> t, location |-> <<"jin", "hai", " ", "9", "4", "1", "8">>,
      teacher |-> "T1"] : t \in TimeStrs}

\* at most nb blocks of at most nm matches each
ParseBlocks(nb, nm) ==
    SeqsUpTo({[name |-> "A", matches |-> ms] :
                 ms \in SeqsUpTo(ParseMatches, nm)}, nb)

InitParse ==
    /\ pc = "parse"
    /\ stack = <<>>
    /\ exc = "none"
    /\ course_blocks \in ParseBlocks(MaxBlocks, MaxMatches)
    /\ bi = 1
    /\ mi = 0
    /\ time_slots = SlotsUnbound
    /\ start_time = Unbound
    /\ end_time = Unbound
    /\ time_locations = <<>>
    /\ courses = <<>>
    /\ PureIdle
    /\ SegIdle
    /\ GenIdle
    /\ MainIdle

NextParse ==
    \/ ParseMatch
    \/ ParseEndBlock
    \/ ParseReturn

SpecParse == InitParse /\ [][NextParse]_vars

(***************************************************************************)
(* Dates: a date is its proleptic Gregorian ordinal (0001-01-01 is day 1), *)
(* as datetime computes it                                                 *)
(***************************************************************************)
IsLeap(y) == y % 4 = 0 /\ (y % 100 # 0 \/ y % 400 = 0)

DaysInMonth(y, m) ==
    IF m = 2 THEN (IF IsLeap(y) THEN 29 ELSE 28)
    ELSE IF m \in {4, 6, 9, 11} THEN 30 ELSE 31

DaysBeforeYear(y) ==
    (y - 1) * 365 + ((y - 1) \div 4) - ((y - 1) \div 100) + ((y - 1) \div 400)

RECURSIVE DaysBeforeMonth(_, _)
DaysBeforeMonth(y, m) ==
    IF m = 1 THEN 0 ELSE DaysBeforeMonth(y, m - 1) + DaysInMonth(y, m - 1)

YmdToOrd(y, m, d) == DaysBeforeYear(y) + DaysBeforeMonth(y, m) + d

\* date.weekday(): Monday is 0, Sunday is 6
Weekday(ord) == (ord + 6) % 7

\* datetime.strptime(s, "%Y-%m-%d") for strings written with a four-digit
\* year and two-digit month and day: <<ordinal>>, or <<>> for ValueError
Strptime(s) ==
    IF /\ Len(s) = 10
       /\ s[5] = "-"
       /\ s[8] = "-"
       /\ \A i \in {1, 2, 3, 4, 6, 7, 9, 10} : s[i] \in Digits
    THEN LET y == PyInt(SubSeq(s, 1, 4))
             m == PyInt(SubSeq(s, 6, 7))
             d == PyInt(SubSeq(s, 9, 10))
         IN  IF y >= 1 /\ m \in 1..12 /\ d >= 1 /\ d <= DaysInMonth(y, m)
             THEN <<YmdToOrd(y, m, d)>>
             ELSE <<>>
    ELSE <<>>

(***************************************************************************)
(* generate_events                                                         *)
(***************************************************************************)
\* s.split(":") of a clock string
SplitColon(s) ==
    LET k == CHOOSE i \in 1..Len(s) : s[i] = ":"
    IN  <<SubSeq(s, 1, k - 1), SubSeq(s, k + 1, Len(s))>>

HourOf(t) == PyInt(SplitColon(t)[1])

MinuteOf(t) == PyInt(SplitColon(t)[2])

\* lines 431-441 and 506-516; "None" is the None of the source
SlotOfHour(h) ==
    IF h = 8 THEN "1-2"
    ELSE IF h = 9 THEN "3-4"
    ELSE IF h = 12 THEN "5-6"
    ELSE IF h = 14 THEN "7-8"
    ELSE IF h = 17 THEN "9-12"
    ELSE "None"

FirstMonday_NoNormalise(d) == d

\* lines 406-407
FirstMonday(d) == d - Weekday(d)

\* list(range(a, b + 1))
RangeSeq(a, b) == IF b >= a THEN [i \in 1..(b - a + 1) |-> a + i - 1] ELSE <<>>

\* the weeks visited by the two loops over tl["weeks"] and range(...)
RECURSIVE WeeksVisited(_)
WeeksVisited(weeks) ==
    IF weeks = <<>> THEN <<>>
    ELSE RangeSeq(weeks[1][1], weeks[1][2]) \o WeeksVisited(Tail(weeks))

RECURSIVE TimeLocationVisits(_, _, _)
TimeLocationVisits(cs, ci, ti) ==
    IF ti > Len(cs[ci].time_locations) THEN <<>>
    ELSE LET ws == WeeksVisited(cs[ci].time_locations[ti].weeks)
         IN  [i \in 1..Len(ws) |-> [ci |-> ci, ti |-> ti, week_num |-> ws[i]]]
                 \o TimeLocationVisits(cs, ci, ti + 1)

RECURSIVE CourseVisits(_, _)
CourseVisits(cs, ci) ==
    IF ci > Len(cs) THEN <<>>
    ELSE TimeLocationVisits(cs, ci, 1) \o CourseVisits(cs, ci + 1)

\* the iterations of the innermost loop (line 446, line 462) in their order
Visits(cs) == CourseVisits(cs, 1)

VisitTL(cs, v) == cs[v.ci].time_locations[v.ti]

DayKey(cs, v) == <<v.week_num, weekday_map[VisitTL(cs, v).weekday]>>

\* the first pass, lines 423-450
FirstPass(cs) ==
    LET V == Visits(cs)
        Keys == {DayKey(cs, V[i]) : i \in DOMAIN V}
    IN  [k \in Keys |->
            {SlotOfHour(HourOf(VisitTL(cs, V[i]).start_time)) :
                i \in {j \in DOMAIN V : DayKey(cs, V[j]) = k}}]

\* daily_slots.get(day_key, set())
DaySlots(ds, k) == IF k \in DOMAIN ds THEN ds[k] ELSE {}

AlreadyAdded_Never(event_key, added) == FALSE

\* line 474
AlreadyAdded(event_key, added) == event_key \in added

NeedAlarm_OwnBlock(current_slot, day_slots) ==
    IF current_slot = "3-4" /\ "3-4" \in day_slots THEN FALSE
    ELSE IF current_slot = "7-8" /\ "5-6" \in day_slots THEN FALSE
    ELSE TRUE

\* lines 519-523
NeedAlarm(current_slot, day_slots) ==
    IF current_slot = "3-4" /\ "1-2" \in day_slots THEN FALSE
    ELSE IF current_slot = "7-8" /\ "5-6" \in day_slots THEN FALSE
    ELSE TRUE

EventKey(cs, v) ==
    <<cs[v.ci].name, VisitTL(cs, v).teacher, v.week_num,
      VisitTL(cs, v).weekday, VisitTL(cs, v).start_time,
      VisitTL(cs, v).end_time>>

\* datetime.replace(hour=h, minute=m) raises ValueError outside these ranges
ValidClock(t) == HourOf(t) \in 0..23 /\ MinuteOf(t) \in 0..59

\* lines 481-542: the event of one iteration.  name and description are
\* kept as the fields they are formatted from.
EventOf(cs, v, monday, ds) ==
    LET tl == VisitTL(cs, v)
        weekday_offset == weekday_map[tl.weekday]
        course_date == monday + ((v.week_num - 1) * 7 + weekday_offset)
        current_slot == SlotOfHour(HourOf(tl.start_time))
        day_slots == DaySlots(ds, <<v.week_num, weekday_offset>>)
    IN  [course     |-> cs[v.ci].name,
         teacher    |-> tl.teacher,
         week_num   |-> v.week_num,
         weekday    |-> tl.weekday,
         start_time |-> tl.start_time,
         end_time   |-> tl.end_time,
         date       |-> course_date,
         alarms     |-> IF NeedAlarm(current_slot, day_slots)
                        THEN <<-20>> ELSE <<>>,
         location   |-> parse_classroom_location(tl.location)]

\* lines 399-450: the locals and the first pass
GenStart ==
    /\ pc = "gen_start"
    /\ first_monday' = FirstMonday(semester_start_date)
    /\ added_events' = {}
    /\ daily_slots' = FirstPass(courses)
    /\ events' = <<>>
    /\ gi' = 0
    /\ pc' = "gen"
    /\ UNCHANGED <<stack, exc, report, semester_start_date, courses, pureVars,
                   parseVars, mainVars, segVars>>

\* one iteration of the loop of line 462
ExpandWeek ==
    /\ pc = "gen"
    /\ gi < Len(Visits(courses))
    /\ LET v == Visits(courses)[gi + 1]
           event_key == EventKey(courses, v)
           tl == VisitTL(courses, v)
       IN  IF AlreadyAdded(event_key, added_events)
           THEN /\ gi' = gi + 1
                /\ UNCHANGED <<pc, stack, exc, report, added_events, events>>
           ELSE /\ added_events' = added_events \cup {event_key}
                /\ IF ValidClock(tl.start_time) /\ ValidClock(tl.end_time)
                   THEN /\ events' = Append(events,
                                EventOf(courses, v, first_monday, daily_slots))
                        /\ gi' = gi + 1
                        /\ UNCHANGED <<pc, stack, exc, report>>
                   ELSE /\ Raise("ValueError", TRUE)
                        /\ UNCHANGED <<events, gi>>
    /\ UNCHANGED <<semester_start_date, first_monday, daily_slots, courses,
                   pureVars, parseVars, mainVars, segVars>>

\* line 544
GenReturn ==
    /\ pc = "gen"
    /\ gi = Len(Visits(courses))
    /\ pc' = IF stack = <<>> THEN "returned" ELSE "write_ics"
    /\ UNCHANGED <<stack, exc, report, courses, genVars, pureVars, parseVars,
                   mainVars, segVars>>

NextGen ==
    \/ GenStart
    \/ ExpandWeek
    \/ GenReturn

GenWeekStrs == { <<"1", "~", "2", "zhou">>, <<"2", "zhou">> }

\* the clock pairs of the five merged blocks and of the single period 4,
\* whose start hour is no anchor
GenTimes ==
    { <<merged_time_map[k].start, merged_time_map[k].end>> :
          k \in DOMAIN merged_time_map }
    \cup { <<class_time_map[4].start, class_time_map[4].end>> }

GenTLs ==
    {[weeks |-> parse_weeks(w), weekday |-> d, time_slots |-> SlotsNone,
      start_time |-> t[1], end_time |-> t[2],
      location |-> <<"jin", "hai", "9", "4", "0", "8">>, teacher |-> "T1"] :
        w \in GenWeekStrs, d \in {"Mon", "Sun"}, t \in GenTimes}

\* a list of courses from a list of time locations, each marked with the
\* name of the course it opens or with "same" when it stays in the course
RECURSIVE BuildCourses(_, _)
BuildCourses(cs, entries) ==
    IF entries = <<>> THEN cs
    ELSE LET e == entries[1]
         IN  IF e.opens # "same"
             THEN BuildCourses(Append(cs, [name |-> e.opens,
                                           time_locations |-> <<e.tl>>]),
                               Tail(entries))
             ELSE BuildCourses([cs EXCEPT ![Len(cs)].time_locations =
                                              Append(@, e.tl)],
                               Tail(entries))

\* the first time location opens course "A"
GenEntries(n) ==
    {es \in NonEmptySeqsUpTo([opens : {"same", "A", "B"}, tl : GenTLs], n) :
        es[1].opens = "A"}

\* 2024-02-26 (a Monday) .. 2024-03-04 (the next Monday)
StartDates ==
    {YmdToOrd(2024, 2, d) : d \in 26..29} \cup {YmdToOrd(2024, 3, d) : d \in 1..4}

InitGen ==
    /\ pc = "gen_start"
    /\ stack = <<>>
    /\ exc = "none"
    /\ \E es \in GenEntries(MaxGenTL) : courses = BuildCourses(<<>>, es)
    /\ semester_start_date = YmdToOrd(2024, 2, 29)
    /\ first_monday = 0
    /\ daily_slots = <<>>
    /\ added_events = {}
    /\ events = <<>>
    /\ gi = 0
    /\ PureIdle
    /\ SegIdle
    /\ ParseIdle
    /\ MainIdle

SpecGen == InitGen /\ [][NextGen]_vars

DateTL(r, d) ==
    [weeks |-> <<r>>, weekday |-> d, time_slots |-> SlotsNone,
     start_time |-> HM("0","8","0","0"), end_time |-> HM("0","9","3","0"),
     location |-> <<"jin", "hai", "9", "4", "0", "8">>, teacher |-> "T1"]

InitDate ==
    /\ pc = "gen_start"
    /\ stack = <<>>
    /\ exc = "none"
    /\ \E a \in 1..MaxWeek, b \in 1..MaxWeek, d \in DOMAIN weekday_map :
          /\ a <= b
          /\ courses = <<[name |-> "A", time_locations |-> <<DateTL(<<a, b>>, d)>>]>>
    /\ semester_start_date \in StartDates
    /\ first_monday = 0
    /\ daily_slots = <<>>
    /\ added_events = {}
    /\ events = <<>>
    /\ gi = 0
    /\ PureIdle
    /\ SegIdle
    /\ ParseIdle
    /\ MainIdle

SpecDate == InitDate /\ [][NextGen]_vars

(***************************************************************************)
(* main                                                                    *)
(***************************************************************************)
Files == {"schedule.ics", "course_data.json"}

\* lines 588-592: open and read kebiao.txt, call parse_course_info
ReadFile ==
    /\ pc = "main"
    /\ IF file_exists
       THEN /\ pc' = "parse"
            /\ bi' = 1
            /\ mi' = 0
            /\ time_slots' = SlotsUnbound
            /\ start_time' = Unbound
            /\ end_time' = Unbound
            /\ time_locations' = <<>>
            /\ courses' = <<>>
            /\ UNCHANGED <<stack, exc, report>>
       ELSE /\ Raise("FileNotFoundError", FALSE)
            /\ UNCHANGED <<bi, mi, time_slots, start_time, end_time,
                           time_locations, courses>>
    /\ UNCHANGED <<course_blocks, pureVars, genVars, mainVars, segVars>>

\* lines 595-603: read the date, parse it, call generate_events
ReadDate ==
    /\ pc = "input"
    /\ LET d == Strptime(Strip(semester_start))
       IN  IF d # <<>>
           THEN /\ semester_start_date' = d[1]
                /\ pc' = "gen_start"
                /\ UNCHANGED <<stack, exc, report>>
           ELSE /\ Raise("ValueError", TRUE)
                /\ UNCHANGED semester_start_date
    /\ UNCHANGED <<first_monday, daily_slots, added_events, events, gi,
                   courses, pureVars, parseVars, mainVars, segVars>>

\* lines 606-609
WriteIcs ==
    /\ pc = "write_ics"
    /\ IF "schedule.ics" \in writable
       THEN /\ written' = written \cup {"schedule.ics"}
            /\ pc' = "write_json"
            /\ UNCHANGED <<stack, exc, report>>
       ELSE /\ Raise("PermissionError", TRUE)
            /\ UNCHANGED written
    /\ UNCHANGED <<file_exists, writable, semester_start, courses, pureVars,
                   parseVars, genVars, segVars>>

\* lines 611-624: the summaries, then course_data.json
WriteJson ==
    /\ pc = "write_json"
    /\ IF "course_data.json" \in writable
       THEN /\ written' = written \cup {"course_data.json"}
            /\ result' = <<[i \in DOMAIN courses |->
                               format_course_summary(courses[i])]>>
            /\ pc' = "end"
            /\ report' = "ok"
            /\ UNCHANGED <<stack, exc>>
       ELSE /\ Raise("PermissionError", TRUE)
            /\ UNCHANGED <<written, result>>
    /\ UNCHANGED <<file_exists, writable, semester_start, courses, week_str,
                   cn_num, location, course, parseVars, genVars, segVars>>

DateStrs ==
    { <<"2", "0", "2", "4", "-", "0", "2", "-", "2", "6">>,
      <<"2", "0", "2", "4", "-", "0", "2", "-", "2", "9">>,
      <<" ", "2", "0", "2", "4", "-", "0", "3", "-", "0", "3">>,
      <<"2", "0", "2", "4", "-", "0", "2", "-", "3", "0">>,
      <<"2", "0", "2", "4", "-", "1", "3", "-", "0", "1">>,
      <<"2", "0", "2", "4", "/", "0", "2", "/", "2", "6">> }

InitMain ==
    /\ pc = "main"
    /\ stack = <<"main">>
    /\ exc = "none"
    /\ report = "none"
    /\ file_exists \in BOOLEAN
    /\ writable \in SUBSET Files
    /\ semester_start \in DateStrs
    /\ written = {}
    /\ \E ms \in NonEmptySeqsUpTo(ParseMatches, MaxMatches) :
          course_blocks = <<[name |-> "A", matches |-> ms]>>
    /\ bi = 0
    /\ mi = 0
    /\ time_slots = SlotsUnbound
    /\ start_time = Unbound
    /\ end_time = Unbound
    /\ time_locations = <<>>
    /\ courses = <<>>
    /\ PureIdle
    /\ SegIdle
    /\ GenIdle

Next ==
    \/ ReadFile
    \/ ParseMatch
    \/ ParseEndBlock
    \/ ParseReturn
    \/ ReadDate
    \/ GenStart
    \/ ExpandWeek
    \/ GenReturn
    \/ WriteIcs
    \/ WriteJson

Spec == InitMain /\ [][Next]_vars

(***************************************************************************)
(* parse_course_info: the segmenter loop (lines 208-230)                   *)
(***************************************************************************)
UpperAZ ==
    {"A", "B", "C", "D", "E", "F", "G", "H", "I", "J", "K", "L", "M",
     "N", "O", "P", "Q", "R", "S", "T", "U", "V", "W", "X", "Y", "Z"}

\* the characters that str.strip() removes
StripChars == Whitespace \cup {"\n"}

\* text.strip()
RECURSIVE StripText(_)
StripText(s) ==
    IF Len(s) > 0 /\ s[1] \in StripChars THEN StripText(Tail(s))
    ELSE IF Len(s) > 0 /\ s[Len(s)] \in StripChars
         THEN StripText(SubSeq(s, 1, Len(s) - 1))
         ELSE s

\* s.split('\n'): the pieces between the newlines, one piece more than there
\* are newlines
RECURSIVE SplitLines(_)
SplitLines(s) ==
    LET n == RunEnd(s, 1, {c \in {s[k] : k \in DOMAIN s} : c # "\n"})
    IN  IF n = Len(s) THEN <<s>>
        ELSE <<SubSeq(s, 1, n)>> \o SplitLines(SubSeq(s, n + 2, Len(s)))

\* '\n'.join(block)
RECURSIVE JoinLines(_)
JoinLines(block) ==
    IF Len(block) = 0 THEN <<>>
    ELSE IF Len(block) = 1 THEN block[1]
    ELSE block[1] \o <<"\n">> \o JoinLines(Tail(block))

\* r'\d{3}[A-Z]\d{4}' matched at position k of s
CodeAt(s, k) ==
    /\ k + 7 <= Len(s)
    /\ \A d \in {0, 1, 2, 4, 5, 6, 7} : s[k + d] \in Digits
    /\ s[k + 3] \in UpperAZ

\* re.search(r'\d{3}[A-Z]\d{4}', s), scanning s from position k
RECURSIVE SearchCode(_, _)
SearchCode(s, k) ==
    IF k + 7 > Len(s) THEN FALSE
    ELSE IF CodeAt(s, k) THEN TRUE
    ELSE SearchCode(s, k + 1)

\* the test of line 220 made on the line itself instead of on the next line
IsCourseStart_CurrentLine(ls, i) == i < Len(ls) /\ SearchCode(ls[i], 1)

\* the test of line 220 for the line at position i (counted from 1) of ls
IsCourseStart(ls, i) == i < Len(ls) /\ SearchCode(ls[i + 1], 1)

\* line 213
SegSplit ==
    /\ pc = "seg_split"
    /\ lines' = SplitLines(StripText(text))
    /\ li' = 1
    /\ pc' = "seg_loop"
    /\ UNCHANGED <<text, current_block, course_started, course_blocks>>
    /\ UNCHANGED <<bi, mi, time_slots, start_time, end_time, time_locations>>
    /\ UNCHANGED <<stack, exc, report, courses, pureVars, genVars, mainVars>>

\* one iteration of the loop of lines 214-226
SegLine ==
    /\ pc = "seg_loop"
    /\ li <= Len(lines)
    /\ LET line == Strip(lines[li])
       IN  IF line = <<>>
           THEN UNCHANGED <<course_blocks, current_block, course_started>>
           ELSE IF IsCourseStart(lines, li)
           THEN /\ course_blocks' =
                       IF current_block # <<>>
                       THEN Append(course_blocks, JoinLines(current_block))
                       ELSE course_blocks
                /\ current_block' = <<line>>
                /\ course_started' = TRUE
           ELSE IF course_started
           THEN /\ current_block' = Append(current_block, line)
                /\ UNCHANGED <<course_blocks, course_started>>
           ELSE UNCHANGED <<course_blocks, current_block, course_started>>
    /\ li' = li + 1
    /\ UNCHANGED <<pc, text, lines>>
    /\ UNCHANGED <<bi, mi, time_slots, start_time, end_time, time_locations>>
    /\ UNCHANGED <<stack, exc, report, courses, pureVars, genVars, mainVars>>

\* the end of the loop and lines 229-230
SegFinish ==
    /\ pc = "seg_loop"
    /\ li > Len(lines)
    /\ course_blocks' =
           IF current_block # <<>>
           THEN Append(course_blocks, JoinLines(current_block))
           ELSE course_blocks
    /\ pc' = "seg_done"
    /\ UNCHANGED <<text, lines, li, current_block, course_started>>
    /\ UNCHANGED <<bi, mi, time_slots, start_time, end_time, time_locations>>
    /\ UNCHANGED <<stack, exc, report, courses, pureVars, genVars, mainVars>>

CourseCode == <<"1", "2", "3", "A", "4", "5", "6", "7">>

\* the lines the input texts are made of: empty, blank, plain, padded, a
\* course code, a course code inside a longer padded line, and a line of
\* near misses of the pattern (two leading digits, three trailing digits, a
\* lower-case letter)
LineTexts ==
    { <<>>,
      <<" ">>,
      <<"x">>,
      <<" ", "x", " ">>,
      CourseCode,
      <<" ", "x">> \o CourseCode \o <<"8", " ">>,
      <<"1", "2", "A", "4", "5", "6", " ", "1", "2", "3", "a", "4", "5",
        "6", "7">> }

InitSeg ==
    /\ pc = "seg_split"
    /\ \E n \in 1..MaxLines :
         \E ls \in [1..n -> LineTexts] : text = JoinLines(ls)
    /\ lines = <<>>
    /\ li = 0
    /\ current_block = <<>>
    /\ course_started = FALSE
    /\ stack = <<>>
    /\ exc = "none"
    /\ courses = <<>>
    /\ PureIdle
    /\ ParseIdle
    /\ GenIdle
    /\ MainIdle

NextSeg ==
    \/ SegSplit
    \/ SegLine
    \/ SegFinish

SpecSeg == InitSeg /\ [][NextSeg]_vars

(***************************************************************************)
(* Pure-function harnesses                                                 *)
(***************************************************************************)
WeekAlphabet == {"1", "2", "~", "zhou", " ", ","}

InitWeeks ==
    /\ pc = "call"
    /\ \E k \in 1..MaxWeekStrLen : week_str \in [1..k -> WeekAlphabet]
    /\ cn_num = <<>>
    /\ location = <<>>
    /\ course = <<>>
    /\ result = <<>>
    /\ NotInPipeline

CallParseWeeks ==
    /\ pc = "call"
    /\ result' = <<parse_weeks(week_str)>>
    /\ pc' = "done"
    /\ UNCHANGED <<week_str, cn_num, location, course, stack, exc>>
    /\ UNCHANGED <<report, parseVars, courses, genVars, mainVars, segVars>>

SpecWeeks == InitWeeks /\ [][CallParseWeeks]_vars

InitNum ==
    /\ pc = "call"
    /\ \E k \in 1..MaxNumLen : cn_num \in [1..k -> CnDigits]
    /\ week_str = <<>>
    /\ location = <<>>
    /\ course = <<>>
    /\ result = <<>>
    /\ NotInPipeline

CallConvertCnNum ==
    /\ pc = "call"
    /\ result' = <<_convert_cn_num(cn_num)>>
    /\ pc' = "done"
    /\ UNCHANGED <<week_str, cn_num, location, course, stack, exc>>
    /\ UNCHANGED <<report, parseVars, courses, genVars, mainVars, segVars>>

SpecNum == InitNum /\ [][CallConvertCnNum]_vars

LocAlphabet == {" ", "1", "2", "8", "9", "x"}

InsertAt(s, p, t) == SubSeq(s, 1, p) \o t \o SubSeq(s, p + 1, Len(s))

InitLoc ==
    /\ pc = "call"
    /\ \E k \in 0..MaxLocLen : \E b \in [1..k -> LocAlphabet] :
          \* no marker, or the campus marker inserted at position p
          \/ location = b
          \/ \E p \in 0..k : /\ p <= MaxMarkerPos
                              /\ location = InsertAt(b, p, <<"jin", "hai">>)
    /\ week_str = <<>>
    /\ cn_num = <<>>
    /\ course = <<>>
    /\ result = <<>>
    /\ NotInPipeline

CallParseClassroomLocation ==
    /\ pc = "call"
    /\ result' = <<parse_classroom_location(location)>>
    /\ pc' = "done"
    /\ UNCHANGED <<week_str, cn_num, location, course, stack, exc>>
    /\ UNCHANGED <<report, parseVars, courses, genVars, mainVars, segVars>>

SpecLoc == InitLoc /\ [][CallParseClassroomLocation]_vars

\* a time location with the given week ranges; the other fields are fixed
TLWithWeeks(w) ==
    [weeks |-> w, weekday |-> "Mon", time_slots |-> << <<1, 2>> >>,
     start_time |-> HM("0","8","0","0"), end_time |-> HM("0","9","3","0"),
     location |-> <<"jin", "hai", "9", "4", "0", "8">>, teacher |-> "T1"]

\* the time locations of a list of ranges, each marked with whether it opens
\* a new time location
RECURSIVE BuildTimeLocations(_, _)
BuildTimeLocations(tls, entries) ==
    IF entries = <<>> THEN tls
    ELSE LET e == entries[1]
         IN  IF tls = <<>> \/ e.new
             THEN BuildTimeLocations(Append(tls, TLWithWeeks(<<e.range>>)),
                                     Tail(entries))
             ELSE BuildTimeLocations([tls EXCEPT ![Len(tls)].weeks =
                                                     Append(@, e.range)],
                                     Tail(entries))

RangeEntries(n) ==
    SeqsUpTo([new : BOOLEAN,
              range : {r \in (1..MaxWeek) \X (1..MaxWeek) : r[1] <= r[2]}], n)

RECURSIVE CountRanges(_)
CountRanges(tls) ==
    IF tls = <<>> THEN 0 ELSE Len(tls[1].weeks) + CountRanges(Tail(tls))

Summaries(c) ==
    <<format_course_summary(c), calculate_total_weeks(c.time_locations)>>

InitSummary ==
    /\ pc = "call"
    /\ \E es \in RangeEntries(MaxRanges) :
          course = [name |-> "A",
                    time_locations |-> BuildTimeLocations(<<>>, es)]
    /\ week_str = <<>>
    /\ cn_num = <<>>
    /\ location = <<>>
    /\ result = <<>>
    /\ NotInPipeline

CallSummary ==
    /\ pc = "call"
    /\ result' = Summaries(course)
    /\ pc' = "done"
    /\ UNCHANGED <<week_str, cn_num, location, course, stack, exc>>
    /\ UNCHANGED <<report, parseVars, courses, genVars, mainVars, segVars>>

Swap(s, i, j) ==
    [k \in DOMAIN s |-> IF k = i THEN s[j] ELSE IF k = j THEN s[i] ELSE s[k]]

\* the same course with two time locations exchanged, summarised again
ReorderTimeLocations ==
    /\ pc = "done"
    /\ \E i, j \in DOMAIN course.time_locations :
          /\ i < j
          /\ course' = [course EXCEPT !.time_locations = Swap(@, i, j)]
    /\ result' = Summaries(course')
    /\ UNCHANGED <<pc, week_str, cn_num, location, stack, exc>>
    /\ UNCHANGED <<report, parseVars, courses, genVars, mainVars, segVars>>

\* the same course with two ranges of one time location exchanged
ReorderRanges ==
    /\ pc = "done"
    /\ \E t \in DOMAIN course.time_locations :
          \E i, j \in DOMAIN course.time_locations[t].weeks :
             /\ i < j
             /\ course' = [course EXCEPT
                              !.time_locations[t].weeks = Swap(@, i, j)]
    /\ result' = Summaries(course')
    /\ UNCHANGED <<pc, week_str, cn_num, location, stack, exc>>
    /\ UNCHANGED <<report, parseVars, courses, genVars, mainVars, segVars>>

\* the same course with one range of one time location repeated
DuplicateRange ==
    /\ pc = "done"
    /\ CountRanges(course.time_locations) < MaxRanges
    /\ \E t \in DOMAIN course.time_locations :
          /\ \E i \in DOMAIN course.time_locations[t].weeks :
                course' = [course EXCEPT !.time_locations[t].weeks =
                                              Append(@, @[i])]
    /\ result' = Summaries(course')
    /\ UNCHANGED <<pc, week_str, cn_num, location, stack, exc>>
    /\ UNCHANGED <<report, parseVars, courses, genVars, mainVars, segVars>>

NextSummary ==
    \/ CallSummary
    \/ ReorderTimeLocations
    \/ ReorderRanges
    \/ DuplicateRange

SpecSummary == InitSummary /\ [][NextSummary]_vars

(***************************************************************************)
(* Claims                                                                  *)
(***************************************************************************)
\* the whole string is one "A~Bzhou" token
IsRangeToken(s) == Len(s) > 0 /\ RangeMatchEnd(s, 1) = Len(s)

\* the whole string is one "Nzhou" token
IsSingleToken(s) ==
    Len(s) >= 2 /\ RunEnd(s, 1, Digits) = Len(s) - 1 /\ s[Len(s)] = "zhou"

\* the pairs of the range and single tokens of s in the order in which a
\* left-to-right reader meets them
RECURSIVE EncounterOrder(_, _)
EncounterOrder(s, i) ==
    IF i > Len(s) THEN <<>>
    ELSE IF RangeMatchEnd(s, i) # 0
         THEN <<RangeMatchPair(s, i)>>
                  \o EncounterOrder(s, RangeMatchEnd(s, i) + 1)
         ELSE IF SingleMatchEnd(s, i) # 0
              THEN <<SingleMatchPair(s, i)>>
                       \o EncounterOrder(s, SingleMatchEnd(s, i) + 1)
              ELSE EncounterOrder(s, i + 1)

\* C3: parse_weeks of "A~Bzhou" is exactly <<(A,B)>>, of "Nzhou" exactly
\* <<(N,N)>>, and of a combined token the pairs of its ranges and singles in
\* encounter order.
C3_ParseWeeksExact ==
    pc = "done" =>
        /\ IsRangeToken(week_str) =>
               result = << <<RangeMatchPair(week_str, 1)>> >>
        /\ IsSingleToken(week_str) =>
               result = << <<SingleMatchPair(week_str, 1)>> >>
        /\ result = <<EncounterOrder(week_str, 1)>>

\* C7: parse_classroom_location always returns an address; a remainder whose
\* length is not 4 or 5 gives the generic "campus remainder" form, and one of
\* length 4 or 5 names its building by the special table (9, 8, 12), as
\* teaching building 1-6, or in the generic building format.
C7_LocationTotal ==
    pc = "done" =>
        LET r == Strip(RemoveMarker(location))
            n == Len(r)
            b == IF n = 4 THEN <<r[1]>> ELSE <<r[1], r[2]>>
            tail == <<" ", r[n - 2], "Lou", r[n - 1], r[n], "JiaoShi">>
        IN  /\ Len(result) = 1
            /\ Len(result[1]) >= 2
            /\ result[1][1] = "Campus"
            /\ n \notin {4, 5} => result[1] = <<"Campus", " ">> \o r
            /\ n \in {4, 5} =>
                 result[1] =
                    IF b = <<"9">> THEN <<"Campus", "ShengXiang">> \o tail
                    ELSE IF b = <<"8">> THEN <<"Campus", "KeXue">> \o tail
                    ELSE IF b = <<"1", "2">> THEN <<"Campus", "ZongHe">> \o tail
                    ELSE IF n = 4 /\ r[1] \in {"1", "2", "3", "4", "5", "6"}
                         THEN <<"Campus", "JiaoXueLou", r[1], "HaoLou">> \o tail
                    ELSE <<"Campus">> \o b \o <<"HaoLou">> \o tail

\* a five-character remainder behind the marker resolved by the special table
C7_Witness ==
    /\ pc = "done"
    /\ location = <<"jin", "hai", "1", "2", "8", "1", "2">>
    /\ result = << <<"Campus", "ZongHe", " ", "8", "Lou", "1", "2", "JiaoShi">> >>

\* the weeks of a course: the union of its [startWeek, endWeek] ranges
WeekUnion(c) ==
    UNION {UNION {{w \in 1..MaxWeek :
                      /\ c.time_locations[t].weeks[r][1] <= w
                      /\ w <= c.time_locations[t].weeks[r][2]} :
                  r \in DOMAIN c.time_locations[t].weeks} :
           t \in DOMAIN c.time_locations}

\* C8: total_weeks of format_course_summary is the number of distinct weeks in
\* the union of all ranges of all time locations and equals
\* calculate_total_weeks; reordering the time locations or the ranges, or
\* repeating a range, leaves it unchanged.
C8_TotalWeeks ==
    /\ [](pc = "done" =>
             /\ result[1].total_weeks = Cardinality(WeekUnion(course))
             /\ result[1].total_weeks = result[2])
    /\ [][pc = "done" => result'[1].total_weeks = result[1].total_weeks]_vars

\* two time locations with overlapping ranges, counted once per week
C8_Witness ==
    /\ pc = "done"
    /\ Len(course.time_locations) = 2
    /\ course.time_locations[1].weeks = << <<1, 2>>, <<2, 3>> >>
    /\ course.time_locations[2].weeks = << <<2, 2>> >>
    /\ result[1].total_weeks = 3

\* the identity key of an emitted event
KeyOfEvent(e) ==
    <<e.course, e.teacher, e.week_num, e.weekday, e.start_time, e.end_time>>

EmittedKeys == {KeyOfEvent(events[i]) : i \in DOMAIN events}

\* C1: generate_events never emits two Instances with the same identity key,
\* and the expansion of a key that was already emitted adds nothing.
C1_UniqueKeys ==
    /\ [](\A i, j \in DOMAIN events :
             i # j => KeyOfEvent(events[i]) # KeyOfEvent(events[j]))
    /\ [][(/\ pc = "gen"
           /\ gi < Len(Visits(courses))
           /\ EventKey(courses, Visits(courses)[gi + 1]) \in EmittedKeys)
          => events' = events]_vars

\* overlapping ranges inside one time location and across two time locations
\* of one course: some expansions were skipped
C1_Witness ==
    /\ pc = "returned"
    /\ Len(courses) = 1
    /\ Len(courses[1].time_locations) = 2
    /\ courses[1].time_locations[1].weeks = << <<1, 2>>, <<2, 2>> >>
    /\ courses[1].time_locations[2] = courses[1].time_locations[1]
    /\ Len(Visits(courses)) = 6
    /\ Len(events) = 2

\* the block of a start hour, by the anchors 8, 9, 12, 14, 17
BlockOfStart(t) ==
    LET h == HourOf(t)
    IN  CASE h = 8 -> "1-2" [] h = 9 -> "3-4" [] h = 12 -> "5-6"
          [] h = 14 -> "7-8" [] h = 17 -> "9-12" [] OTHER -> "no block"

InRanges(w, weeks) == \E r \in DOMAIN weeks : weeks[r][1] <= w /\ w <= weeks[r][2]

\* block b is occupied on the day of event e by some time location of some
\* course
Occupied(b, e) ==
    \E c \in DOMAIN courses : \E t \in DOMAIN courses[c].time_locations :
        LET tl == courses[c].time_locations[t]
        IN  /\ tl.weekday = e.weekday
            /\ InRanges(e.week_num, tl.weeks)
            /\ BlockOfStart(tl.start_time) = b

\* C2: an emitted Instance has no reminder exactly when it is in block "3-4"
\* on a day where "1-2" is occupied or in block "7-8" on a day where "5-6" is
\* occupied; every other Instance has one reminder 20 minutes before its start.
C2_ReminderPolicy ==
    \A i \in DOMAIN events :
        LET e == events[i]
            b == BlockOfStart(e.start_time)
            suppressed == \/ b = "3-4" /\ Occupied("1-2", e)
                          \/ b = "7-8" /\ Occupied("5-6", e)
        IN  e.alarms = IF suppressed THEN <<>> ELSE <<-20>>

\* one day with "1-2" and "3-4" from two courses, and a lone "3-4" in another
\* week: the first keeps its reminder, the second has none, the lone one has
C2_Witness ==
    /\ pc = "returned"
    /\ Len(courses) = 2
    /\ \E i, j, k \in DOMAIN events :
          /\ BlockOfStart(events[i].start_time) = "1-2"
          /\ events[i].alarms = <<-20>>
          /\ BlockOfStart(events[j].start_time) = "3-4"
          /\ events[j].week_num = events[i].week_num
          /\ events[j].weekday = events[i].weekday
          /\ events[j].course # events[i].course
          /\ events[j].alarms = <<>>
          /\ BlockOfStart(events[k].start_time) = "3-4"
          /\ events[k].week_num # events[i].week_num
          /\ events[k].alarms = <<-20>>

\* the offsets of the weekday labels, Monday = 0 .. Sunday = 6
LabelOrder == <<"Mon", "Tue", "Wed", "Thu", "Fri", "Sat", "Sun">>

OffsetOfLabel(d) == (CHOOSE k \in 1..7 : LabelOrder[k] = d) - 1

\* the Monday of the Monday-to-Sunday week that contains the date
MondayOfWeek(d) == CHOOSE m \in (d - 6)..d : Weekday(m) = 0

\* C10: the date of an Instance of week w on weekday d is the Monday of the
\* week of the semester start + (w-1)*7 + offset(d); it falls on weekday d, and
\* any start date of the same Monday-to-Sunday week gives the same dates.
C10_InstanceDate ==
    \A i \in DOMAIN events :
        LET e == events[i]
            off == OffsetOfLabel(e.weekday)
        IN  e.week_num >= 1 =>
              /\ e.date = MondayOfWeek(semester_start_date)
                              + (e.week_num - 1) * 7 + off
              /\ Weekday(e.date) = off
              /\ \A s2 \in StartDates :
                     MondayOfWeek(s2) = MondayOfWeek(semester_start_date) =>
                         e.date = FirstMonday(s2) + (e.week_num - 1) * 7 + off

\* a semester start on Thursday 2024-02-29: the Sunday of week 2 is 2024-03-10
C10_Witness ==
    /\ pc = "returned"
    /\ semester_start_date = YmdToOrd(2024, 2, 29)
    /\ Weekday(semester_start_date) = 3
    /\ \E i \in DOMAIN events :
          /\ events[i].week_num = 2
          /\ events[i].weekday = "Sun"
          /\ events[i].date = YmdToOrd(2024, 3, 10)

\* each time location appended by a match has a period pair or a clock pair
\* (not both, not neither) and the times of its own time string
OwnTimes(tl, m) ==
    LET own == ResolveTime(m.time_str, Unbound, Unbound)
        has_period == tl.time_slots.kind = "list" /\ tl.time_slots.items # <<>>
        has_clock  == tl.time_slots.kind = "None"
    IN  /\ has_period # has_clock
        /\ tl.start_time # Unbound
        /\ tl.end_time # Unbound
        /\ tl.start_time = own.start_time
        /\ tl.end_time = own.end_time

\* C5: every TimeLocation that parse_course_info puts in a Course has exactly
\* one of a period pair or a clock pair, and non-null start and end times
\* resolved from its own period pair or clock literal.
C5_OwnTimes ==
    [][Len(time_locations') = Len(time_locations) + 1 =>
          OwnTimes(time_locations'[Len(time_locations')],
                   course_blocks[bi].matches[mi + 1])]_vars

\* C6: parse_course_info returns without raising for every input, and a block
\* without TimeLocation is dropped.
C6_NeverRaises ==
    /\ pc # "raised"
    /\ exc = "none"
    /\ \A c \in DOMAIN courses : courses[c].time_locations # <<>>

\* C9: a run of main that ends by reporting an error has written no output
\* file (in particular never schedule.ics without course_data.json), and the
\* date-format error is reported only when the semester-start string fails to
\* parse.
C9_ErrorsLeaveNoOutput ==
    pc = "end" =>
        /\ report # "ok" => written = {}
        /\ ~("schedule.ics" \in written /\ "course_data.json" \notin written)
        /\ report = "date_format" => Strptime(Strip(semester_start)) = <<>>

\* the numerals in the order of their values
CnOrder == <<"yi", "er", "san", "si", "wu", "liu", "qi", "ba", "jiu", "shi">>

CnCharValue(c) == CHOOSE v \in 1..10 : CnOrder[v] = c

HasShi(n) == \E i \in 1..Len(n) : n[i] = "shi"

InputLines == SplitLines(text)

IsBlank(l) == \A k \in DOMAIN l : l[k] \in Whitespace

\* a line without its leading and trailing whitespace
Trimmed(l) ==
    IF IsBlank(l) THEN <<>>
    ELSE LET ink == {k \in DOMAIN l : l[k] \notin Whitespace}
             a == CHOOSE k \in ink : \A m \in ink : k <= m
             b == CHOOSE k \in ink : \A m \in ink : k >= m
         IN  SubSeq(l, a, b)

HasCourseCode(l) ==
    \E k \in 1..Len(l) :
       /\ k + 7 <= Len(l)
       /\ \A d \in {0, 1, 2, 4, 5, 6, 7} : l[k + d] \in Digits
       /\ l[k + 3] \in UpperAZ

\* the positions of the block-start lines
BlockStarts ==
    {k \in DOMAIN InputLines :
        /\ ~IsBlank(InputLines[k])
        /\ k + 1 \in DOMAIN InputLines
        /\ HasCourseCode(InputLines[k + 1])}

\* the elements of a set of numbers, ascending
RECURSIVE Ascending(_)
Ascending(S) ==
    IF S = {} THEN <<>>
    ELSE LET m == CHOOSE x \in S : \A y \in S : x <= y
         IN  <<m>> \o Ascending(S \ {m})

\* the positions of the lines that belong to the block that starts at k
MembersOf(k) ==
    {m \in DOMAIN InputLines :
        /\ m >= k
        /\ ~IsBlank(InputLines[m])
        /\ \A s \in BlockStarts : s > k => m < s}

\* the block that starts at position k, its lines as Shown(line)
BlockOf(k, Shown(_)) ==
    LET ms == Ascending(MembersOf(k))
    IN  [j \in DOMAIN ms |-> Shown(InputLines[ms[j]])]

AsIs(l) == l

SegmenterOutput(Shown(_)) ==
    LET starts == Ascending(BlockStarts)
    IN  /\ Len(course_blocks) = Len(starts)
        /\ \A j \in DOMAIN starts :
              SplitLines(course_blocks[j]) = BlockOf(starts[j], Shown)
        /\ \A j \in DOMAIN course_blocks :
              \A l \in DOMAIN SplitLines(course_blocks[j]) :
                 ~IsBlank(SplitLines(course_blocks[j])[l])

\* C11 (as stated): the segmenter outputs, in input order, one block per
\* block-start line; a block is its block-start line followed by the non-blank
\* lines up to the next block start, each line as it is in the input; lines
\* before the first block start are in no block, no block has a blank line.
C11_BlocksOfInputLines ==
    pc = "seg_done" => SegmenterOutput(AsIs)

\* C11 (amended): the segmenter outputs, in input order, one block per
\* block-start line; a block is its block-start line followed by the non-blank
\* lines up to the next block start, each line without its leading and
\* trailing whitespace; lines before the first block start are in no block,
\* no block has a blank line, and no line is in two blocks.
C11_SegmenterBlocks ==
    pc = "seg_done" =>
        /\ SegmenterOutput(Trimmed)
        /\ \A j, k \in BlockStarts : j # k => MembersOf(j) \cap MembersOf(k) = {}
        /\ \A k \in BlockStarts : \A m \in DOMAIN InputLines :
              (\A s \in BlockStarts : m < s) => m \notin MembersOf(k)

\* two blocks, a non-blank line before the first block start, and a padded
\* line inside a block
C11_Witness ==
    /\ pc = "seg_done"
    /\ Len(course_blocks) >= 2
    /\ \E m \in DOMAIN InputLines :
          ~IsBlank(InputLines[m]) /\ \A s \in BlockStarts : m < s
    /\ \E k \in BlockStarts : \E m \in MembersOf(k) :
          Trimmed(InputLines[m]) # InputLines[m]

====
